---- MODULE Spec2Model ----
(***************************************************************************)
(* wipekit: the k-anonymity engine (wipekit/anonymization/k_anonymity.py). *)
(*                                                                         *)
(* One engine is constructed (KAnonymity.__init__) and one call of         *)
(* anonymize is followed through its steps: validation, the per-column     *)
(* transform loop, the verifier, the suppression repair and the return.    *)
(* DataFrames live in a heap of objects so that copy() and in-place        *)
(* column assignment are distinguishable from aliasing.                    *)
(***************************************************************************)
EXTENDS Integers, Sequences, FiniteSets, TLC

VARIABLES
    pc,                 \* position of the caller / of the anonymize call
    k_arg,              \* the argument handed to KAnonymity(k)
    self_k,             \* self.k of the constructed engine (0: no engine)
    heap,               \* the objects allocated so far, addressed by position
    df,                 \* anonymize's df argument (a heap reference)
    original,           \* the caller's table as it was when anonymize was called
    quasi_identifiers,  \* anonymize's quasi_identifiers argument
    categorical_method, \* anonymize's categorical_method argument
    numerical_method,   \* anonymize's numerical_method argument
    bin_count,          \* anonymize's bin_count argument
    anonymized_df,      \* the local anonymized_df (a heap reference, 0: unset)
    col_i,              \* position of the transform loop in quasi_identifiers
    verified,           \* what _verify_k_anonymity returned ("none" before it ran)
    repaired,           \* whether _apply_suppression was run by this call
    log,                \* the events handed to the module-level logger
    raised,             \* the exception that ended the constructor or the call
    returned,           \* the reference anonymize returned (0: nothing returned)
    calls,              \* the helper methods the caller called directly, with results
    metrics,            \* what evaluate_information_loss returned
    frames,             \* the frames of the anonymize calls that run concurrently
    db                  \* a database manager: its pool and its get_connection blocks

vars == <<pc, k_arg, self_k, heap, df, original, quasi_identifiers,
          categorical_method, numerical_method, bin_count, anonymized_df,
          col_i, verified, repaired, log, raised, returned, calls, metrics,
          frames, db>>

(***************************************************************************)
(* Bounds of the model.                                                    *)
(***************************************************************************)
MaxRows == 4
MaxK == 3

(***************************************************************************)
(* Cells.  A cell is a string, a number (a reduced fraction: the means of  *)
(* microaggregation are not integers) or the null marker (None / NaN).     *)
(***************************************************************************)
Null == [null |-> TRUE]

Str(s) == [str |-> s]

RECURSIVE Gcd(_, _)
Gcd(a, b) == IF b = 0 THEN a ELSE Gcd(b, a % b)

Abs(n) == IF n < 0 THEN -n ELSE n

Num(n, d) ==
    LET g == Gcd(Abs(n), d)
    IN  [num |-> n \div g, den |-> d \div g]

IsNull(c) == c = Null

\* pandas' elementwise ==: a null cell equals nothing, not even a null cell
CellEq(a, b) == ~IsNull(a) /\ ~IsNull(b) /\ a = b

NumLt(a, b) == a.num * b.den < b.num * a.den

NumLe(a, b) == a.num * b.den <= b.num * a.den

(***************************************************************************)
(* Tables.  A DataFrame is its column list, one dtype and one value        *)
(* sequence per column, and its row index.                                 *)
(***************************************************************************)
Columns == <<"zip", "age", "diag">>

ColumnSet == {Columns[i] : i \in 1..Len(Columns)}

ZipValues == {"A", "B"}

AgeValues == {1, 2}

DiagOf(i) == IF i % 2 = 1 THEN "flu" ELSE "hiv"

MakeTable(n, zip, age) ==
    [kind    |-> "DataFrame",
     columns |-> Columns,
     index   |-> [i \in 1..n |-> i - 1],
     dtypes  |-> [c \in ColumnSet |-> IF c = "age" THEN "int64" ELSE "object"],
     data    |-> [c \in ColumnSet |->
                    [i \in 1..n |->
                        CASE c = "zip" -> Str(zip[i])
                          [] c = "age" -> Num(age[i], 1)
                          [] OTHER     -> Str(DiagOf(i))]]]

Tables ==
    UNION {{MakeTable(n, zip, age) :
                zip \in [1..n -> ZipValues], age \in [1..n -> AgeValues]} :
           n \in 0..MaxRows}

\* an argument that is not a DataFrame
NotAFrame == [kind |-> "list"]

NRows(t) == Len(t.index)

HasColumn(t, c) == \E i \in 1..Len(t.columns) : t.columns[i] = c

\* pd.api.types.is_numeric_dtype
is_numeric_dtype(t, c) == t.dtypes[c] \in {"int64", "float64", "bool"}

\* a key that holds the first of the columns cols only
RowKeyFirst(t, cols, i) ==
    IF Len(cols) = 0 THEN <<>> ELSE <<t.data[cols[1]][i]>>

\* the tuple of a row's values across the columns cols
RowKey(t, cols, i) == [j \in 1..Len(cols) |-> t.data[cols[j]][i]]

\* whether a row has a null in one of the columns cols
HasNullKey(t, cols, i) == \E j \in 1..Len(cols) : IsNull(t.data[cols[j]][i])

(***************************************************************************)
(* The heap.  copy() allocates a new object holding the same values;       *)
(* result_df[column] = values writes into the object referred to.          *)
(***************************************************************************)
\* a copy() that hands back the object itself
DfCopyAliased(h, r) == [heap |-> h, ref |-> r]

DfCopy(h, r) == [heap |-> Append(h, h[r]), ref |-> Len(h) + 1]

SetColumn(h, r, c, values, dtype) ==
    [h EXCEPT ![r].data[c] = values, ![r].dtypes[c] = dtype]

(***************************************************************************)
(* Exceptions and log events.                                              *)
(***************************************************************************)
\* an exception: its class, its message and the values formatted into the message
Error(type, msg, args) == [type |-> type, msg |-> msg, args |-> args]

NoError == Error("none", "", <<>>)

\* a logger that hands every event on at level info
EventAllInfo(level, msg, args) == [level |-> "info", msg |-> msg, args |-> args]

\* a log event: its level, its message and the values formatted into the message
Event(level, msg, args) == [level |-> level, msg |-> msg, args |-> args]

\* no metrics computed yet
NoMetrics == [computed |-> FALSE]

\* the threads that call anonymize at the same time
Callers == {"a", "b"}

\* the frame of a call that has not started
IdleFrame ==
    [pc |-> "idle", df |-> 0, original |-> [kind |-> "none"],
     quasi_identifiers |-> <<>>,
     categorical_method |-> "", numerical_method |-> "", bin_count |-> 0,
     anonymized_df |-> 0, col_i |-> 0, verified |-> "none",
     repaired |-> FALSE, raised |-> NoError, returned |-> 0]

NoFrames == [c \in Callers |-> IdleFrame]

\* the with-blocks that may be open at the same time
Blocks == {"outer", "inner", "other"}

\* a with-block that was not entered
IdleBlock == [pc |-> "idle", conn |-> 0, ended |-> "", ops |-> <<>>,
              raised |-> NoError]

\* before a manager was constructed
NoManager == [manager |-> "none", free |-> {}, uses |-> 0,
              blocks |-> [b \in Blocks |-> IdleBlock]]

(***************************************************************************)
(* Arithmetic on numbers.                                                  *)
(***************************************************************************)
NumAdd(a, b) == Num(a.num * b.den + b.num * a.den, a.den * b.den)

NumSub(a, b) == Num(a.num * b.den - b.num * a.den, a.den * b.den)

NumMul(a, b) == Num(a.num * b.num, a.den * b.den)

RECURSIVE NumSum(_)
NumSum(s) == IF s = <<>> THEN Num(0, 1) ELSE NumAdd(Head(s), NumSum(Tail(s)))

\* sorted(values)
Sorted(values) == SortSeq(values, NumLt)

(***************************************************************************)
(* _anonymize_categorical                                                  *)
(***************************************************************************)
\* Counter(df[column])[v]: a None cell is a key like any other
Counter(values, v) == Cardinality({i \in 1..Len(values) : values[i] = v})

\* rare_values taken with count <= k
RareValuesAtMostK(values, k) ==
    {values[i] : i \in {j \in 1..Len(values) : Counter(values, values[j]) <= k}}

\* rare_values: the values whose count is below k
RareValues(values, k) ==
    {values[i] : i \in {j \in 1..Len(values) : Counter(values, values[j]) < k}}

\* a replacement that nulls a rare value that already is the label
ReplaceRareEscalating(values, rare, label) ==
    [i \in 1..Len(values) |->
        IF values[i] \in rare
        THEN IF values[i] = label THEN Null ELSE label
        ELSE values[i]]

\* result_df[column].apply(lambda x: label if x in rare_values else x)
ReplaceRare(values, rare, label) ==
    [i \in 1..Len(values) |-> IF values[i] \in rare THEN label ELSE values[i]]

Generalize(values, k) ==
    LET rare == RareValues(values, k)
    IN  IF rare # {} THEN ReplaceRare(values, rare, Str("Other")) ELSE values

\* suppression of the values that occur once, whatever k
SuppressSingletons(values, k) ==
    LET rare == RareValues(values, 2)
    IN  IF rare # {} THEN ReplaceRare(values, rare, Null) ELSE values

Suppress(values, k) ==
    LET rare == RareValues(values, k)
    IN  IF rare # {} THEN ReplaceRare(values, rare, Null) ELSE values

\* the result of a helper: the heap it leaves, the reference it returns and
\* the exception it raises
Outcome(h, r, e) == [heap |-> h, ref |-> r, raised |-> e]

anonymize_categorical(h, r, column, method, k) ==
    LET c == DfCopy(h, r)
        values == h[r].data[column]
    IN  CASE method = "generalization" ->
                Outcome(SetColumn(c.heap, c.ref, column, Generalize(values, k),
                                  h[r].dtypes[column]),
                        c.ref, NoError)
          [] method = "suppression" ->
                Outcome(SetColumn(c.heap, c.ref, column, Suppress(values, k),
                                  h[r].dtypes[column]),
                        c.ref, NoError)
          [] OTHER ->
                Outcome(c.heap, 0,
                        Error("ValueError",
                              "Unsupported categorical anonymization method: ",
                              <<method>>))

(***************************************************************************)
(* _anonymize_numerical: microaggregation                                  *)
(***************************************************************************)
\* groups = [sorted_values[i:i+k] for i in range(0, len(sorted_values), k)]
GroupCount(n, k) == (n + k - 1) \div k

\* a slice that stops one short: sorted_values[i:i+self.k-1]
GroupShort(sorted, g, k) ==
    SubSeq(sorted, (g - 1) * k + 1,
           IF g * k - 1 < Len(sorted) THEN g * k - 1 ELSE Len(sorted))

Group(sorted, g, k) ==
    SubSeq(sorted, (g - 1) * k + 1,
           IF g * k < Len(sorted) THEN g * k ELSE Len(sorted))

\* group_mean = sum(group) / len(group)
GroupMean(group) == NumMul(NumSum(group), Num(1, Len(group)))

\* a mapping that keeps the mean of the first group holding the value
ValueToMeanFirst(sorted, k, v) ==
    LET holding == {g \in 1..GroupCount(Len(sorted), k) :
                        \E p \in 1..Len(Group(sorted, g, k)) :
                            Group(sorted, g, k)[p] = v}
        first == CHOOSE g \in holding : \A o \in holding : g <= o
    IN  GroupMean(Group(sorted, first, k))

\* value_to_mean[v]: the groups are visited in order, a later group's mean
\* overwrites an earlier one's
ValueToMean(sorted, k, v) ==
    LET holding == {g \in 1..GroupCount(Len(sorted), k) :
                        \E p \in 1..Len(Group(sorted, g, k)) :
                            Group(sorted, g, k)[p] = v}
        last == CHOOSE g \in holding : \A o \in holding : o <= g
    IN  GroupMean(Group(sorted, last, k))

\* df[column].map(value_to_mean)
Microaggregate(values, k) ==
    LET sorted == Sorted(values)
    IN  [i \in 1..Len(values) |-> ValueToMean(sorted, k, values[i])]

(***************************************************************************)
(* _anonymize_numerical: binning.  KBinsDiscretizer(n_bins, 'ordinal',     *)
(* 'quantile') is scikit-learn's: the edges are the percentiles            *)
(* 0, 100/n, ..., 100 of the column (linear interpolation), an edge that   *)
(* does not exceed its predecessor is dropped, a constant column gets the  *)
(* single bin (-inf, inf), and a value's bin is the number of inner edges  *)
(* that are <= the value.                                                  *)
(***************************************************************************)
DefaultBinCount == 5

\* np.percentile(column, 100 * j / n_bins) of the sorted column
Percentile(sorted, j, n_bins) ==
    LET h == (Len(sorted) - 1) * j
        lo == h \div n_bins
        rest == h % n_bins
    IN  IF rest = 0
        THEN sorted[lo + 1]
        ELSE NumAdd(sorted[lo + 1],
                    NumMul(Num(rest, n_bins),
                           NumSub(sorted[lo + 2], sorted[lo + 1])))

\* bin_edges[jj][np.ediff1d(bin_edges[jj], to_begin=np.inf) > 1e-8]
RECURSIVE RemoveSmallBins(_)
RemoveSmallBins(edges) ==
    IF Len(edges) <= 1
    THEN edges
    ELSE LET n == Len(edges)
             front == RemoveSmallBins(SubSeq(edges, 1, n - 1))
         IN  IF NumLt(edges[n - 1], edges[n])
             THEN Append(front, edges[n])
             ELSE front

\* discretizer.bin_edges_[0] of a column that is not constant
BinEdges(values, n_bins) ==
    LET sorted == Sorted(values)
    IN  RemoveSmallBins([j \in 1..(n_bins + 1) |->
                            Percentile(sorted, j - 1, n_bins)])

\* np.searchsorted(bin_edges[1:-1], x, side="right"), counted from 1
BinOf(edges, x) ==
    1 + Cardinality({m \in 2..(Len(edges) - 1) : NumLe(edges[m], x)})

\* f"{x:.2f}"
Fmt2(x) ==
    LET q == 100 * Abs(x.num)
        whole == q \div x.den
        rest == q % x.den
        cents == IF 2 * rest > x.den \/ (2 * rest = x.den /\ whole % 2 = 1)
                 THEN whole + 1
                 ELSE whole
    IN  (IF x.num < 0 THEN "-" ELSE "") \o ToString(cents \div 100) \o "."
        \o ToString((cents % 100) \div 10) \o ToString(cents % 10)

\* bin_labels[i] = f"{bin_edges[i]:.2f}-{bin_edges[i+1]:.2f}"
BinLabel(edges, i) == Str(Fmt2(edges[i]) \o "-" \o Fmt2(edges[i + 1]))

IsConstant(values) == \A i, j \in 1..Len(values) : values[i] = values[j]

\* the column of labels binning assigns
Binned(values, n_bins) ==
    IF IsConstant(values)
    THEN [i \in 1..Len(values) |-> Str("-inf-inf")]
    ELSE LET edges == BinEdges(values, n_bins)
         IN  [i \in 1..Len(values) |-> BinLabel(edges, BinOf(edges, values[i]))]

\* fit_transform refuses an empty column and fewer than two bins
BinningRejects(values, n_bins) == Len(values) = 0 \/ n_bins < 2

anonymize_numerical(h, r, column, method, n_bins, k) ==
    LET c == DfCopy(h, r)
        values == h[r].data[column]
    IN  CASE method = "binning" ->
                IF BinningRejects(values, n_bins)
                THEN Outcome(c.heap, 0,
                             Error("ValueError", "KBinsDiscretizer: invalid input",
                                   <<>>))
                ELSE Outcome(SetColumn(c.heap, c.ref, column,
                                       Binned(values, n_bins), "object"),
                             c.ref, NoError)
          [] method = "microaggregation" ->
                Outcome(SetColumn(c.heap, c.ref, column,
                                  Microaggregate(values, k), "float64"),
                        c.ref, NoError)
          [] OTHER ->
                Outcome(c.heap, 0,
                        Error("ValueError",
                              "Unsupported numerical anonymization method: ",
                              <<method>>))

(***************************************************************************)
(* _verify_k_anonymity                                                     *)
(***************************************************************************)
\* the rows df.groupby(quasi_identifiers) keeps: dropna=True drops every row
\* with a null in one of the keys
GroupedRows(t, cols) == {i \in 1..NRows(t) : ~HasNullKey(t, cols, i)}

\* the keys of df.groupby(quasi_identifiers).size()
GroupKeys(t, cols) == {RowKey(t, cols, i) : i \in GroupedRows(t, cols)}

\* df.groupby(quasi_identifiers).size()[key]
GroupSize(t, cols, key) ==
    Cardinality({i \in GroupedRows(t, cols) : RowKey(t, cols, i) = key})

\* groupby refuses an empty key list on a table that has rows
GroupbyRejects(t, cols) == Len(cols) = 0 /\ NRows(t) > 0

\* combination_counts.min() >= self.k: the minimum of no group at all is NaN,
\* and NaN >= k is False
verify_k_anonymity(t, cols, k) ==
    /\ GroupKeys(t, cols) # {}
    /\ \A key \in GroupKeys(t, cols) : GroupSize(t, cols, key) >= k

(***************************************************************************)
(* _apply_suppression                                                      *)
(***************************************************************************)
\* the groups counted below k - 1
ViolatingBelowKMinusOne(t, cols, k) ==
    {key \in GroupKeys(t, cols) : GroupSize(t, cols, key) < k - 1}

\* violating_combinations: the groups counted below k
ViolatingCombinations(t, cols, k) ==
    {key \in GroupKeys(t, cols) : GroupSize(t, cols, key) < k}

\* mask: the rows that equal a violating combination in every key column
SuppressionMask(t, cols, k) ==
    {i \in 1..NRows(t) :
        \E key \in ViolatingCombinations(t, cols, k) :
            \A j \in 1..Len(cols) : CellEq(t.data[cols[j]][i], key[j])}

\* a suppression that drops the masked rows of the column
SetNullDropping(values, mask) ==
    LET kept(n) == Cardinality({i \in 1..n : i \notin mask})
        rowAt(m) == CHOOSE i \in 1..Len(values) : i \notin mask /\ kept(i) = m
    IN  [m \in 1..kept(Len(values)) |-> values[rowAt(m)]]

\* a suppression that writes a placeholder into the masked rows
SetMasked(values, mask) ==
    [i \in 1..Len(values) |-> IF i \in mask THEN Str("*") ELSE values[i]]

\* result_df.loc[mask, col] = None
SetNull(values, mask) ==
    [i \in 1..Len(values) |-> IF i \in mask THEN Null ELSE values[i]]

\* the dtype of a column after None was assigned into it
DtypeWithNull(dtype) == IF dtype = "int64" THEN "float64" ELSE dtype

\* a suppression that nulls the masked rows in every column of the table
SuppressEveryColumn(h, r, cols, mask, j) ==
    [h EXCEPT ![r].data = [c \in DOMAIN h[r].data |-> SetNull(h[r].data[c], mask)]]

\* a suppression that nulls the masked rows in the first listed column only
SuppressFirstColumn(h, r, cols, mask, j) ==
    IF Len(cols) = 0
    THEN h
    ELSE SetColumn(h, r, cols[1], SetNull(h[r].data[cols[1]], mask),
                   DtypeWithNull(h[r].dtypes[cols[1]]))

RECURSIVE SuppressColumns(_, _, _, _, _)
SuppressColumns(h, r, cols, mask, j) ==
    IF j > Len(cols)
    THEN h
    ELSE SuppressColumns(
            SetColumn(h, r, cols[j], SetNull(h[r].data[cols[j]], mask),
                      DtypeWithNull(h[r].dtypes[cols[j]])),
            r, cols, mask, j + 1)

apply_suppression(h, r, cols, k) ==
    LET c == DfCopy(h, r)
        mask == SuppressionMask(h[r], cols, k)
    IN  IF ViolatingCombinations(h[r], cols, k) # {}
        THEN Outcome(SuppressColumns(c.heap, c.ref, cols, mask, 1), c.ref, NoError)
        ELSE Outcome(c.heap, c.ref, NoError)

(***************************************************************************)
(* KAnonymity.__init__                                                     *)
(***************************************************************************)
\* the values handed to the constructor: Python ints, bools, floats, strs
KArg(type, num, den) == [type |-> type, num |-> num, den |-> den]

KArgs ==
    {KArg("int", n, 1) : n \in {-5, 0, 1} \cup 2..MaxK}
    \cup {KArg("bool", 1, 1), KArg("float", 5, 2), KArg("float", 3, 1),
          KArg("str", 3, 1)}

\* isinstance(k, int): bool is a subclass of int
IsInstanceInt(k) == k.type \in {"int", "bool"}

\* a guard that lets k = 1 through
InitRejectsBelowOne(k) == ~IsInstanceInt(k) \/ k.num < k.den

\* the guard of __init__: not isinstance(k, int) or k < 2
InitRejects(k) == ~IsInstanceInt(k) \/ k.num < 2 * k.den

Construct(k) ==
    /\ pc = "new"
    /\ k_arg' = k
    /\ IF InitRejects(k)
       THEN /\ raised' = Error("ValueError",
                    "k must be an integer greater than or equal to 2", <<>>)
            /\ pc' = "init_raised"
            /\ UNCHANGED self_k
       ELSE /\ self_k' = k.num
            /\ pc' = "ready"
            /\ UNCHANGED raised
    /\ UNCHANGED <<heap, df, original, quasi_identifiers, categorical_method,
                   numerical_method, bin_count, anonymized_df, col_i,
                   verified, repaired, log, returned, calls, metrics, frames, db>>

(***************************************************************************)
(* KAnonymity.anonymize                                                    *)
(***************************************************************************)
\* the names a quasi-identifier list is drawn from: "ssn" is no column
QINames == {"zip", "age", "ssn"}

MaxQI == 2

\* the lists of distinct names of length <= MaxQI
QILists ==
    {q \in UNION {[1..n -> QINames] : n \in 0..MaxQI} :
        \A i, j \in 1..Len(q) : i # j => q[i] # q[j]}

CategoricalMethods == {"generalization", "suppression", "masking"}

NumericalMethods == {"binning", "microaggregation", "rounding"}

BinCounts == {DefaultBinCount}

\* [col for col in quasi_identifiers if col not in df.columns]
MissingColumns(t, cols) == SelectSeq(cols, LAMBDA c : ~HasColumn(t, c))

\* the call, the validation of its arguments and anonymized_df = df.copy()
Anonymize(d, qi, cm, nm, bc) ==
    /\ pc = "ready"
    /\ heap' = IF d.kind = "DataFrame" /\ MissingColumns(d, qi) = <<>>
               THEN DfCopy(<<d>>, 1).heap
               ELSE <<d>>
    /\ df' = 1
    /\ original' = d
    /\ quasi_identifiers' = qi
    /\ categorical_method' = cm
    /\ numerical_method' = nm
    /\ bin_count' = bc
    /\ IF d.kind # "DataFrame"
       THEN /\ log' = Append(log, Event("error",
                        "Invalid input: df is not a pandas DataFrame", <<>>))
            /\ raised' = Error("TypeError", "df must be a pandas DataFrame", <<>>)
            /\ pc' = "raised"
            /\ UNCHANGED <<anonymized_df, col_i>>
       ELSE IF MissingColumns(d, qi) # <<>>
       THEN /\ log' = Append(log, Event("error", "Missing columns in DataFrame: ",
                                        MissingColumns(d, qi)))
            /\ raised' = Error("ValueError",
                    "All quasi-identifiers must be columns in the DataFrame", <<>>)
            /\ pc' = "raised"
            /\ UNCHANGED <<anonymized_df, col_i>>
       ELSE /\ log' = Append(log, Event("info", "Starting anonymization with k=",
                                        <<self_k>>))
            /\ anonymized_df' = DfCopy(<<d>>, 1).ref
            /\ col_i' = 1
            /\ pc' = "transform"
            /\ UNCHANGED raised
    /\ UNCHANGED <<k_arg, self_k, verified, repaired, returned, calls, metrics, frames, db>>

\* one iteration of "for column in quasi_identifiers"
TransformColumn ==
    /\ pc = "transform"
    /\ col_i <= Len(quasi_identifiers)
    /\ LET column == quasi_identifiers[col_i]
           numeric == is_numeric_dtype(heap[anonymized_df], column)
           out == IF numeric
                  THEN anonymize_numerical(heap, anonymized_df, column,
                                           numerical_method, bin_count, self_k)
                  ELSE anonymize_categorical(heap, anonymized_df, column,
                                             categorical_method, self_k)
       IN  /\ heap' = out.heap
           /\ log' = Append(log, Event("debug",
                        IF numeric THEN "Anonymizing numerical column: "
                                   ELSE "Anonymizing categorical column: ",
                        <<column, IF numeric THEN numerical_method
                                             ELSE categorical_method>>))
           /\ IF out.raised # NoError
              THEN /\ raised' = out.raised
                   /\ pc' = "raised"
                   /\ UNCHANGED <<anonymized_df, col_i>>
              ELSE /\ anonymized_df' = out.ref
                   /\ col_i' = col_i + 1
                   /\ UNCHANGED <<raised, pc>>
    /\ UNCHANGED <<k_arg, self_k, df, original, quasi_identifiers,
                   categorical_method, numerical_method, bin_count, verified,
                   repaired, returned, calls, metrics, frames, db>>

\* a verifier run that does not wait for the end of the column loop
VerifyEarly ==
    /\ pc = "transform"
    /\ IF GroupbyRejects(heap[anonymized_df], quasi_identifiers)
       THEN /\ raised' = Error("ValueError", "No group keys passed!", <<>>)
            /\ pc' = "raised"
            /\ UNCHANGED verified
       ELSE /\ verified' = IF verify_k_anonymity(heap[anonymized_df],
                                                 quasi_identifiers, self_k)
                           THEN "True" ELSE "False"
            /\ pc' = IF verified' = "True" THEN "complete" ELSE "repair"
            /\ UNCHANGED raised
    /\ UNCHANGED <<k_arg, self_k, heap, df, original, quasi_identifiers,
                   categorical_method, numerical_method, bin_count,
                   anonymized_df, col_i, repaired, log, returned, calls,
                   metrics, frames, db>>

\* "if not self._verify_k_anonymity(anonymized_df, quasi_identifiers)"
Verify ==
    /\ pc = "transform"
    /\ col_i > Len(quasi_identifiers)
    /\ IF GroupbyRejects(heap[anonymized_df], quasi_identifiers)
       THEN /\ raised' = Error("ValueError", "No group keys passed!", <<>>)
            /\ pc' = "raised"
            /\ UNCHANGED verified
       ELSE /\ verified' = IF verify_k_anonymity(heap[anonymized_df],
                                                 quasi_identifiers, self_k)
                           THEN "True" ELSE "False"
            /\ pc' = IF verified' = "True" THEN "complete" ELSE "repair"
            /\ UNCHANGED raised
    /\ UNCHANGED <<k_arg, self_k, heap, df, original, quasi_identifiers,
                   categorical_method, numerical_method, bin_count,
                   anonymized_df, col_i, repaired, log, returned, calls,
                   metrics, frames, db>>

\* the warning and "anonymized_df = self._apply_suppression(...)"
Repair ==
    /\ pc = "repair"
    /\ log' = Append(log, Event("warning",
            "K-anonymity not satisfied after initial processing, applying suppression",
            <<>>))
    /\ LET out == apply_suppression(heap, anonymized_df, quasi_identifiers, self_k)
       IN  /\ heap' = out.heap
           /\ anonymized_df' = out.ref
    /\ repaired' = TRUE
    /\ pc' = "complete"
    /\ UNCHANGED <<k_arg, self_k, df, original, quasi_identifiers,
                   categorical_method, numerical_method, bin_count, col_i,
                   verified, raised, returned, calls, metrics, frames, db>>

\* the closing info event and "return anonymized_df"
Return ==
    /\ pc = "complete"
    /\ log' = Append(log, Event("info", "Anonymization complete", <<>>))
    /\ returned' = anonymized_df
    /\ pc' = "returned"
    /\ UNCHANGED <<k_arg, self_k, heap, df, original, quasi_identifiers,
                   categorical_method, numerical_method, bin_count,
                   anonymized_df, col_i, verified, repaired, raised, calls,
                   metrics, frames, db>>

Init ==
    /\ pc = "new"
    /\ k_arg = KArg("none", 0, 1)
    /\ self_k = 0
    /\ heap = <<>>
    /\ df = 0
    /\ original = NotAFrame
    /\ quasi_identifiers = <<>>
    /\ categorical_method = ""
    /\ numerical_method = ""
    /\ bin_count = 0
    /\ anonymized_df = 0
    /\ col_i = 0
    /\ verified = "none"
    /\ repaired = FALSE
    /\ log = <<>>
    /\ raised = NoError
    /\ returned = 0
    /\ calls = <<>>
    /\ metrics = NoMetrics
    /\ frames = NoFrames
    /\ db = NoManager

(***************************************************************************)
(* evaluate_information_loss.  The counts are numpy integers, whose        *)
(* division by zero gives nan or inf with a warning; the product           *)
(* len(anonymized_df) * len(quasi_identifiers) and the sum over no column  *)
(* are Python integers, whose division by zero raises.                     *)
(***************************************************************************)
NaN == [nan |-> TRUE]

Inf == [inf |-> TRUE]

\* x / n for a numpy number x >= 0 and an integer n
TrueDivide(x, n) ==
    CASE x = NaN -> NaN
      [] n = 0   -> IF x.num = 0 THEN NaN ELSE Inf
      [] OTHER   -> NumMul(x, Num(1, n))

\* x * 100
Times100(x) == IF x \in {NaN, Inf} THEN x ELSE NumMul(x, Num(100, 1))

\* anonymized_df[col].isna().sum()
NullCount(t, c) == Cardinality({i \in 1..NRows(t) : IsNull(t.data[c][i])})

\* null_count / len(anonymized_df) * 100
SuppressionRate(t, c) == Times100(TrueDivide(Num(NullCount(t, c), 1), NRows(t)))

\* sum(anonymized_df[col].isna().sum() for col in quasi_identifiers)
RECURSIVE TotalSuppressed(_, _)
TotalSuppressed(t, cols) ==
    IF cols = <<>> THEN 0
    ELSE NullCount(t, Head(cols)) + TotalSuppressed(t, Tail(cols))

\* total_suppressed / total_cells * 100
OverallSuppressionRate(t, cols) ==
    Times100(TrueDivide(Num(TotalSuppressed(t, cols), 1), NRows(t) * Len(cols)))

\* with no quasi-identifier both total_suppressed and total_cells are the
\* Python integer 0
OverallRaises(t, cols) == Len(cols) = 0

\* the columns that were numeric and no longer are
GeneralizedColumns(o, a, cols) ==
    {c \in {cols[j] : j \in 1..Len(cols)} :
        is_numeric_dtype(o, c) /\ ~is_numeric_dtype(a, c)}

\* anonymized_df[col].nunique()
NUnique(values) ==
    Cardinality({values[i] : i \in {j \in 1..Len(values) : ~IsNull(values[j])}})

\* (original_df[col].max() - original_df[col].min()) / anonymized_df[col].nunique()
AvgGeneralization(o, a, c) ==
    IF NRows(o) = 0 THEN NaN
    ELSE LET sorted == Sorted(o.data[c])
         IN  TrueDivide(NumSub(sorted[Len(sorted)], sorted[1]),
                        NUnique(a.data[c]))

\* ec_sizes.mean(): the mean of no size at all is nan
EcMean(t, cols) ==
    IF GroupKeys(t, cols) = {} THEN NaN
    ELSE Num(Cardinality(GroupedRows(t, cols)), Cardinality(GroupKeys(t, cols)))

\* the dictionary evaluate_information_loss returns
Metrics(o, a, cols) ==
    [computed                   |-> TRUE,
     suppression_rate           |-> [c \in {cols[j] : j \in 1..Len(cols)} |->
                                        SuppressionRate(a, c)],
     overall_suppression_rate   |-> OverallSuppressionRate(a, cols),
     avg_generalization         |-> [c \in GeneralizedColumns(o, a, cols) |->
                                        AvgGeneralization(o, a, c)],
     equivalence_class_count    |-> Cardinality(GroupKeys(a, cols)),
     avg_equivalence_class_size |-> EcMean(a, cols)]

\* evaluate_information_loss(original_df, anonymized_df, quasi_identifiers),
\* called with the table handed to anonymize and the table it returned
Evaluate ==
    /\ pc = "returned"
    /\ LET o == heap[df]
           a == heap[returned]
       IN  CASE OverallRaises(a, quasi_identifiers) ->
                    /\ raised' = Error("ZeroDivisionError", "division by zero", <<>>)
                    /\ pc' = "evaluate_raised"
                    /\ UNCHANGED metrics
             [] GroupbyRejects(a, quasi_identifiers) ->
                    /\ raised' = Error("ValueError", "No group keys passed!", <<>>)
                    /\ pc' = "evaluate_raised"
                    /\ UNCHANGED metrics
             [] OTHER ->
                    /\ metrics' = Metrics(o, a, quasi_identifiers)
                    /\ pc' = "evaluated"
                    /\ UNCHANGED raised
    /\ UNCHANGED <<k_arg, self_k, heap, df, original, quasi_identifiers,
                   categorical_method, numerical_method, bin_count,
                   anonymized_df, col_i, verified, repaired, log, returned,
                   calls, frames, db>>

(***************************************************************************)
(* The helper methods called directly.  A caller that holds a table calls  *)
(* _anonymize_categorical on its "zip" column, once on the table and once  *)
(* more on the table or on the first result, or calls _anonymize_numerical *)
(* on its "age" column.  The columns handed in are drawn from wider sets   *)
(* than anonymize's tables: a categorical column may hold the generic      *)
(* label and nulls.                                                        *)
(***************************************************************************)
MaxLen == 6

MaxBins == 3

CatValues == {Str("A"), Str("B"), Str("Other"), Null}

NumValues == {1, 2, 4}

\* a table whose "zip" and "age" columns hold the given cells
TableOf(zip, age) ==
    [kind    |-> "DataFrame",
     columns |-> Columns,
     index   |-> [i \in 1..Len(zip) |-> i - 1],
     dtypes  |-> [c \in ColumnSet |-> IF c = "age" THEN "int64" ELSE "object"],
     data    |-> [c \in ColumnSet |->
                    CASE c = "zip" -> zip
                      [] c = "age" -> age
                      [] OTHER     -> [i \in 1..Len(zip) |-> Str(DiagOf(i))]]]

CatTables ==
    UNION {{TableOf(zip, [i \in 1..n |-> Num(1, 1)]) : zip \in [1..n -> CatValues]} :
           n \in 0..MaxRows}

NumTables ==
    UNION {{TableOf([i \in 1..n |-> Str("A")], [i \in 1..n |-> Num(age[i], 1)]) :
                age \in [1..n -> NumValues]} :
           n \in 0..MaxLen}

\* a direct call of a helper: its arguments, the reference it returned
\* (0: none) and the exception it raised
Call(fn, arg, method, bins, out) ==
    [fn |-> fn, arg |-> arg, method |-> method, bins |-> bins,
     ret |-> out.ref, raised |-> out.raised]

\* the caller has a table whose "zip" column it will transform
HoldsCategorical(t) ==
    /\ pc = "ready"
    /\ heap' = <<t>>
    /\ df' = 1
    /\ original' = t
    /\ pc' = "holds_categorical"
    /\ UNCHANGED <<k_arg, self_k, quasi_identifiers, categorical_method,
                   numerical_method, bin_count, anonymized_df, col_i, verified,
                   repaired, log, raised, returned, calls, metrics, frames, db>>

\* the caller has a table whose "age" column it will transform
HoldsNumerical(t) ==
    /\ pc = "ready"
    /\ heap' = <<t>>
    /\ df' = 1
    /\ original' = t
    /\ pc' = "holds_numerical"
    /\ UNCHANGED <<k_arg, self_k, quasi_identifiers, categorical_method,
                   numerical_method, bin_count, anonymized_df, col_i, verified,
                   repaired, log, raised, returned, calls, metrics, frames, db>>

\* the references a second call may be handed: the table, or the first result
Arguments == {1} \cup {calls[i].ret : i \in {j \in 1..Len(calls) : calls[j].ret # 0}}

\* self._anonymize_categorical(heap[arg], "zip", method)
CallCategorical(arg, method) ==
    /\ pc \in {"holds_categorical", "categorical_once"}
    /\ arg \in Arguments
    /\ LET out == anonymize_categorical(heap, arg, "zip", method, self_k)
       IN  /\ heap' = out.heap
           /\ calls' = Append(calls, Call("_anonymize_categorical", arg, method,
                                          0, out))
    /\ pc' = IF pc = "holds_categorical" THEN "categorical_once"
                                         ELSE "categorical_twice"
    /\ UNCHANGED <<k_arg, self_k, df, original, quasi_identifiers,
                   categorical_method, numerical_method, bin_count,
                   anonymized_df, col_i, verified, repaired, log, raised,
                   returned, metrics, frames, db>>

\* self._anonymize_numerical(heap[1], "age", method, bins)
CallNumerical(method, bins) ==
    /\ pc = "holds_numerical"
    /\ LET out == anonymize_numerical(heap, 1, "age", method, bins, self_k)
       IN  /\ heap' = out.heap
           /\ calls' = Append(calls, Call("_anonymize_numerical", 1, method,
                                          bins, out))
    /\ pc' = "numerical_once"
    /\ UNCHANGED <<k_arg, self_k, df, original, quasi_identifiers,
                   categorical_method, numerical_method, bin_count,
                   anonymized_df, col_i, verified, repaired, log, raised,
                   returned, metrics, frames, db>>

(***************************************************************************)
(* Concurrent calls of anonymize on one engine.  Each thread in Callers    *)
(* calls anonymize on a table of its own; the threads share the engine     *)
(* (self.k), the heap and the module-level logger, and every thread keeps  *)
(* its arguments and locals in its own frame.  A thread may be preempted   *)
(* between the steps of the call: the validation and copy, each iteration  *)
(* of the transform loop, the verifier, the repair and the return.         *)
(***************************************************************************)
ConcurrentTables ==
    {MakeTable(3, <<"A", "A", "B">>, <<1, 1, 2>>),
     MakeTable(2, <<"B", "B">>, <<1, 2>>)}

ConcurrentQILists == {<<"zip">>, <<"age", "zip">>, <<"ssn">>}

ConcurrentCategoricalMethods == {"generalization", "suppression"}

ConcurrentNumericalMethods == {"microaggregation", "rounding"}

\* a working table kept on the engine, where every thread finds the same one
LocalOnEngine(c) == "a"

\* the frame in which thread c keeps its local anonymized_df
Local(c) == c

\* thread c calls anonymize: the validation and anonymized_df = df.copy()
ThreadCall(c, d, qi, cm, nm) ==
    /\ frames[c].pc = "idle"
    /\ LET at == Len(heap) + 1
           valid == MissingColumns(d, qi) = <<>>
           copy == DfCopy(Append(heap, d), at)
           called == [frames EXCEPT ![c] =
                        [@ EXCEPT !.pc = IF valid THEN "transform" ELSE "raised",
                                  !.df = at,
                                  !.original = d,
                                  !.quasi_identifiers = qi,
                                  !.categorical_method = cm,
                                  !.numerical_method = nm,
                                  !.bin_count = DefaultBinCount,
                                  !.col_i = IF valid THEN 1 ELSE 0,
                                  !.raised =
                                      IF valid THEN NoError
                                      ELSE Error("ValueError",
                                             "All quasi-identifiers must be columns in the DataFrame",
                                             <<>>)]]
       IN  /\ heap' = IF valid THEN copy.heap ELSE Append(heap, d)
           /\ log' = Append(log,
                        IF valid
                        THEN Event("info", "Starting anonymization with k=",
                                   <<self_k>>)
                        ELSE Event("error", "Missing columns in DataFrame: ",
                                   MissingColumns(d, qi)))
           /\ frames' = IF valid
                        THEN [called EXCEPT ![Local(c)].anonymized_df = copy.ref]
                        ELSE called
    /\ UNCHANGED <<pc, k_arg, self_k, df, original, quasi_identifiers,
                   categorical_method, numerical_method, bin_count,
                   anonymized_df, col_i, verified, repaired, raised, returned,
                   calls, metrics, db>>

\* thread c runs one iteration of "for column in quasi_identifiers"
ThreadTransform(c) ==
    /\ frames[c].pc = "transform"
    /\ frames[c].col_i <= Len(frames[c].quasi_identifiers)
    /\ LET f == frames[c]
           table == frames[Local(c)].anonymized_df
           column == f.quasi_identifiers[f.col_i]
           numeric == is_numeric_dtype(heap[table], column)
           out == IF numeric
                  THEN anonymize_numerical(heap, table, column,
                                           f.numerical_method, f.bin_count, self_k)
                  ELSE anonymize_categorical(heap, table, column,
                                             f.categorical_method, self_k)
       IN  /\ heap' = out.heap
           /\ log' = Append(log, Event("debug",
                        IF numeric THEN "Anonymizing numerical column: "
                                   ELSE "Anonymizing categorical column: ",
                        <<column, IF numeric THEN f.numerical_method
                                             ELSE f.categorical_method>>))
           /\ frames' =
                IF out.raised # NoError
                THEN [frames EXCEPT ![c].pc = "raised", ![c].raised = out.raised]
                ELSE [frames EXCEPT ![c].col_i = f.col_i + 1,
                                    ![Local(c)].anonymized_df = out.ref]
    /\ UNCHANGED <<pc, k_arg, self_k, df, original, quasi_identifiers,
                   categorical_method, numerical_method, bin_count,
                   anonymized_df, col_i, verified, repaired, raised, returned,
                   calls, metrics, db>>

\* thread c runs "if not self._verify_k_anonymity(anonymized_df, quasi_identifiers)"
ThreadVerify(c) ==
    /\ frames[c].pc = "transform"
    /\ frames[c].col_i > Len(frames[c].quasi_identifiers)
    /\ LET f == frames[c]
           table == heap[frames[Local(c)].anonymized_df]
           ok == verify_k_anonymity(table, f.quasi_identifiers, self_k)
       IN  frames' =
             IF GroupbyRejects(table, f.quasi_identifiers)
             THEN [frames EXCEPT ![c].pc = "raised",
                                 ![c].raised = Error("ValueError",
                                                     "No group keys passed!", <<>>)]
             ELSE [frames EXCEPT ![c].verified = IF ok THEN "True" ELSE "False",
                                 ![c].pc = IF ok THEN "complete" ELSE "repair"]
    /\ UNCHANGED <<pc, k_arg, self_k, heap, df, original, quasi_identifiers,
                   categorical_method, numerical_method, bin_count,
                   anonymized_df, col_i, verified, repaired, log, raised,
                   returned, calls, metrics, db>>

\* thread c logs the warning and runs "anonymized_df = self._apply_suppression(...)"
ThreadRepair(c) ==
    /\ frames[c].pc = "repair"
    /\ log' = Append(log, Event("warning",
            "K-anonymity not satisfied after initial processing, applying suppression",
            <<>>))
    /\ LET out == apply_suppression(heap, frames[Local(c)].anonymized_df,
                                    frames[c].quasi_identifiers, self_k)
       IN  /\ heap' = out.heap
           /\ frames' = [frames EXCEPT ![c].repaired = TRUE,
                                       ![c].pc = "complete",
                                       ![Local(c)].anonymized_df = out.ref]
    /\ UNCHANGED <<pc, k_arg, self_k, df, original, quasi_identifiers,
                   categorical_method, numerical_method, bin_count,
                   anonymized_df, col_i, verified, repaired, raised, returned,
                   calls, metrics, db>>

\* thread c logs the closing info event and runs "return anonymized_df"
ThreadReturn(c) ==
    /\ frames[c].pc = "complete"
    /\ log' = Append(log, Event("info", "Anonymization complete", <<>>))
    /\ frames' = [frames EXCEPT ![c].returned = frames[Local(c)].anonymized_df,
                                ![c].pc = "returned"]
    /\ UNCHANGED <<pc, k_arg, self_k, heap, df, original, quasi_identifiers,
                   categorical_method, numerical_method, bin_count,
                   anonymized_df, col_i, verified, repaired, raised, returned,
                   calls, metrics, db>>

(***************************************************************************)
(* The database managers (wipekit/read/postgresql.py, oracle.py,           *)
(* mysql.py).  get_connection is a context manager: it takes a connection  *)
(* from the pool and yields it to the with-block; when the block ends it   *)
(* commits, or rolls back on a driver error, and gives the connection      *)
(* back.  The pool, commit and rollback are the driver's: each may raise a *)
(* driver error, a rollback for one on a connection that was lost.         *)
(***************************************************************************)
MaxConnections == 2

MaxUses == 3

Managers == {"postgresql", "oracle", "mysql"}

Connections == 1..MaxConnections

\* __init__ / initialize_pool: the pool holds all its connections
Manage(m) ==
    /\ db.manager = "none"
    /\ db' = [db EXCEPT !.manager = m, !.free = Connections]
    /\ UNCHANGED <<pc, k_arg, self_k, heap, df, original, quasi_identifiers,
                   categorical_method, numerical_method, bin_count,
                   anonymized_df, col_i, verified, repaired, log, raised,
                   returned, calls, metrics, frames>>

\* the call that hands a connection back: SimpleConnectionPool.putconn,
\* oracledb's pool.release, the pooled MySQL connection's close
ReleaseCall(m) ==
    CASE m = "postgresql" -> "putconn"
      [] m = "oracle"     -> "release"
      [] OTHER            -> "close"

\* the driver's error class and wipekit's ConnectionError
DriverError == Error("driver.Error", "", <<>>)

ConnectionError == Error("ConnectionError", "Database operation failed: ", <<>>)

\* get_connection up to its yield: conn = self._pool.getconn(); with no free
\* connection psycopg2's and MySQL's pools raise a driver error, which leaves
\* through the except clause with conn still None, and oracledb's acquire
\* waits for a connection
Acquire(b) ==
    /\ db.manager # "none"
    /\ db.blocks[b].pc \in {"idle", "exited"}
    /\ db.uses < MaxUses
    /\ db.free = {} => db.manager # "oracle"
    /\ IF db.free = {}
       THEN /\ db' = [db EXCEPT !.uses = @ + 1,
                                !.blocks[b] = [IdleBlock EXCEPT
                                    !.pc = "exited",
                                    !.ended = "not_entered",
                                    !.raised = ConnectionError]]
            /\ log' = Append(log, Event("error", "Database error: ", <<>>))
       ELSE LET conn == CHOOSE c \in db.free : \A o \in db.free : c <= o
            IN  /\ db' = [db EXCEPT !.uses = @ + 1,
                                    !.free = @ \ {conn},
                                    !.blocks[b] = [IdleBlock EXCEPT
                                        !.pc = "body", !.conn = conn]]
                /\ UNCHANGED log
    /\ UNCHANGED <<pc, k_arg, self_k, heap, df, original, quasi_identifiers,
                   categorical_method, numerical_method, bin_count,
                   anonymized_df, col_i, verified, repaired, raised,
                   returned, calls, metrics, frames>>

\* whether conn.rollback() raises
RollbackRaises(rollback_fails) == rollback_fails

\* get_connection after its yield.  ended: how the with-block ended
\* ("normal", "driver_error", "exception"); commit_fails, rollback_fails:
\* whether conn.commit() and conn.rollback() raise a driver error
Exit(b, ended, commit_fails, rollback_fails) ==
    /\ db.blocks[b].pc = "body"
    /\ LET committing == ended = "normal"
           handling == ended = "driver_error" \/ (committing /\ commit_fails)
           wrapped == handling /\ ~RollbackRaises(rollback_fails)
           ops == (IF committing THEN <<"commit">> ELSE <<>>)
                  \o (IF handling THEN <<"rollback">> ELSE <<>>)
                  \o <<ReleaseCall(db.manager)>>
           error == CASE wrapped  -> ConnectionError
                      [] handling -> DriverError
                      [] ended = "exception" -> Error("Exception", "", <<>>)
                      [] OTHER -> NoError
       IN  /\ db' = [db EXCEPT !.free = @ \cup {db.blocks[b].conn},
                               !.blocks[b].pc = "exited",
                               !.blocks[b].ended =
                                    IF committing /\ commit_fails
                                    THEN "driver_error" ELSE ended,
                               !.blocks[b].ops = ops,
                               !.blocks[b].raised = error]
           /\ log' = IF wrapped
                     THEN Append(log, Event("error", "Database error: ", <<>>))
                     ELSE log
    /\ UNCHANGED <<pc, k_arg, self_k, heap, df, original, quasi_identifiers,
                   categorical_method, numerical_method, bin_count,
                   anonymized_df, col_i, verified, repaired, raised,
                   returned, calls, metrics, frames>>

(***************************************************************************)
(* Properties.                                                             *)
(***************************************************************************)
\* the number of rows holding row i's tuple over cols, a null being a value
\* like any other
Multiplicity(t, cols, i) ==
    Cardinality({j \in 1..NRows(t) : RowKey(t, cols, j) = RowKey(t, cols, i)})

AllNull(t, cols, i) == \A j \in 1..Len(cols) : IsNull(t.data[cols[j]][i])

QISet == {quasi_identifiers[j] : j \in 1..Len(quasi_identifiers)}

\* the table the verifier ran on: the call's table before any repair
Verifying == verified # "none" /\ ~repaired

\* C1: in the table anonymize returns, every row is in a set of at least k
\* rows with the same quasi-identifier tuple (a null counting as a value) or
\* has all its quasi-identifier columns null.
C1_KAnonymousOrAllNull ==
    pc = "returned" =>
        \A i \in 1..NRows(heap[returned]) :
            \/ Multiplicity(heap[returned], quasi_identifiers, i) >= self_k
            \/ AllNull(heap[returned], quasi_identifiers, i)

\* C2: the repair step nulls every quasi-identifier column of every row of
\* every class smaller than k, classes with a null in their tuple included,
\* and leaves the rows of the classes of size >= k as they were.
C2_RepairNullsEverySmallClass ==
    [][pc = "repair" =>
        LET before == heap[anonymized_df]
            after == heap'[anonymized_df']
        IN  \A i \in 1..NRows(before) :
                IF Multiplicity(before, quasi_identifiers, i) < self_k
                THEN AllNull(after, quasi_identifiers, i)
                ELSE \A c \in ColumnSet : after.data[c][i] = before.data[c][i]]_vars

\* C3: the verifier answers True exactly when every group of rows with the
\* same quasi-identifier tuple has at least k rows, a tuple with nulls forming
\* a group like any other (stated for the tables on which the verifier has
\* some group to count).
C3_VerifierCountsNullGroups ==
    (Verifying /\ GroupKeys(heap[anonymized_df], quasi_identifiers) # {}) =>
        (verified = "True" <=>
            \A i \in 1..NRows(heap[anonymized_df]) :
                Multiplicity(heap[anonymized_df], quasi_identifiers, i) >= self_k)

\* C4: when there is no group to take a minimum over (a table without rows
\* among others) the verifier answers True and anonymize does not repair
\* (stated for the calls that name a quasi-identifier).
C4_NoGroupVerifies ==
    /\ (Verifying /\ QISet # {}
            /\ GroupKeys(heap[anonymized_df], quasi_identifiers) = {})
            => verified = "True"
    /\ (pc = "returned" /\ QISet # {} /\ NRows(original) = 0) => ~repaired

\* C5: anonymize never changes the table it was handed: at every point of a
\* call, and after it returned or raised, the caller's object holds what it
\* held at the call, and the object returned is another one.
C5_InputNeverMutated ==
    /\ df # 0 => heap[df] = original
    /\ pc = "returned" => returned # df

\* a call that repaired and returned a table differing from its input
C5_Witness ==
    pc = "returned" /\ repaired /\ heap[returned] # original /\ heap[df] = original

\* C6: the table anonymize returns has the rows of the input, in their order,
\* and the columns of the input, in their order.
C6_SameShape ==
    pc = "returned" =>
        /\ heap[returned].columns = original.columns
        /\ heap[returned].index = original.index
        /\ DOMAIN heap[returned].data = DOMAIN original.data
        /\ \A c \in DOMAIN original.data :
                Len(heap[returned].data[c]) = Len(original.data[c])

\* a call on a table with rows that transformed two columns, repaired and returned
C6_Witness ==
    /\ pc = "returned"
    /\ repaired
    /\ Len(quasi_identifiers) = 2
    /\ NRows(original) = MaxRows
    /\ heap[returned].index = original.index

\* C7: in the table anonymize returns, every column outside the
\* quasi-identifier list holds the input's values, row by row.
C7_OtherColumnsUntouched ==
    pc = "returned" =>
        \A c \in ColumnSet \ QISet : heap[returned].data[c] = original.data[c]

\* a returned table whose quasi-identifier columns were nulled by the repair
\* while a column outside the list kept its values
C7_Witness ==
    /\ pc = "returned"
    /\ repaired
    /\ \E i \in 1..NRows(original) :
            /\ AllNull(heap[returned], quasi_identifiers, i)
            /\ ~AllNull(original, quasi_identifiers, i)
    /\ QISet # {}
    /\ heap[returned].data["diag"] = original.data["diag"]

\* what the constructor accepts by its contract: a Python int that is >= 2
IntegerAtLeastTwo(k) == k.type = "int" /\ k.den = 1 /\ k.num >= 2

\* C8: the constructor raises for every k that is not an integer >= 2 and
\* builds an engine for every integer k >= 2, so every engine has k >= 2.
C8_ConstructorGuardsK ==
    k_arg.type # "none" =>
        /\ self_k = 0 <=> ~IntegerAtLeastTwo(k_arg)
        /\ self_k = 0 => pc = "init_raised" /\ raised # NoError
        /\ self_k # 0 => self_k >= 2 /\ self_k = k_arg.num

\* the constructor has raised for k = 1
C8_Witness == pc = "init_raised" /\ k_arg = KArg("int", 1, 1) /\ self_k = 0

\* C9: every exception of the engine is a ConfigurationError (a bad k, an
\* unsupported method, with the value) or a ValidationError (not a table,
\* missing columns, with the names).
C9_ErrorKinds ==
    raised # NoError => raised.type \in {"ConfigurationError", "ValidationError"}

\* C10: a call naming a column the table does not have raises an error whose
\* content lists exactly the missing names, before any transform has run and
\* with no table changed.
C10_MissingNamesInError ==
    (pc = "raised" /\ original.kind = "DataFrame"
        /\ MissingColumns(original, quasi_identifiers) # <<>>) =>
        /\ {raised.args[i] : i \in 1..Len(raised.args)} =
                {c \in QISet : ~HasColumn(original, c)}
        /\ heap = <<original>>
        /\ anonymized_df = 0

\* C11: a call whose categorical_method or numerical_method is not a
\* supported one aborts and returns no table, whatever the types of the
\* quasi-identifier columns (stated for the calls on a table with rows that
\* name a quasi-identifier).
C11_UnsupportedMethodNeverReturns ==
    (pc = "returned" /\ QISet # {} /\ NRows(original) > 0) =>
        /\ categorical_method \in {"generalization", "suppression"}
        /\ numerical_method \in {"binning", "microaggregation"}

\* the direct calls of _anonymize_categorical with this method that returned
CategoricalCalls(method) ==
    {i \in 1..Len(calls) : /\ calls[i].fn = "_anonymize_categorical"
                           /\ calls[i].method = method
                           /\ calls[i].ret # 0}

\* the "zip" column a call was handed, and the one it returned
ZipIn(i) == heap[calls[i].arg].data["zip"]

ZipOut(i) == heap[calls[i].ret].data["zip"]

\* row r of the column holds a value that occurs fewer than k times in it
RareRow(values, r) == Counter(values, values[r]) < self_k

HasRareAndFrequent(values) ==
    /\ \E r \in 1..Len(values) : RareRow(values, r)
    /\ \E r \in 1..Len(values) : ~RareRow(values, r)

\* C12: generalization of a column puts 'Other' in every row whose value
\* occurs fewer than k times in the input column and leaves every row whose
\* value occurs at least k times as it was.
C12_GeneralizationReplacesRare ==
    \A i \in CategoricalCalls("generalization") :
        /\ Len(ZipOut(i)) = Len(ZipIn(i))
        /\ \A r \in 1..Len(ZipIn(i)) :
              ZipOut(i)[r] = IF RareRow(ZipIn(i), r) THEN Str("Other")
                                                     ELSE ZipIn(i)[r]

C12_Witness ==
    \E i \in CategoricalCalls("generalization") :
        /\ HasRareAndFrequent(ZipIn(i))
        /\ \E r \in 1..Len(ZipIn(i)) : ZipOut(i)[r] # ZipIn(i)[r]

\* C13: on the same column with the same k, suppression nulls exactly the
\* rows that generalization labels 'Other', the rows whose value occurs fewer
\* than k times, and both leave every other row as it was.
C13_SuppressionSameRowsAsGeneralization ==
    \A i \in CategoricalCalls("generalization"),
       j \in CategoricalCalls("suppression") :
        calls[i].arg = calls[j].arg =>
            \A r \in 1..Len(ZipIn(i)) :
                IF RareRow(ZipIn(i), r)
                THEN ZipOut(i)[r] = Str("Other") /\ ZipOut(j)[r] = Null
                ELSE ZipOut(i)[r] = ZipIn(i)[r] /\ ZipOut(j)[r] = ZipIn(i)[r]

C13_Witness ==
    \E i \in CategoricalCalls("generalization"),
       j \in CategoricalCalls("suppression") :
        /\ calls[i].arg = calls[j].arg
        /\ HasRareAndFrequent(ZipIn(i))
        /\ \E r \in 1..Len(ZipIn(i)) : ZipOut(j)[r] = Null /\ ZipIn(i)[r] # Null

\* the second call is the first call's transform applied to its result
Reapplied ==
    /\ Len(calls) = 2
    /\ calls[1].fn = "_anonymize_categorical"
    /\ calls[1].method \in {"generalization", "suppression"}
    /\ calls[2].method = calls[1].method
    /\ calls[1].ret # 0
    /\ calls[2].arg = calls[1].ret
    /\ calls[2].ret # 0

\* C14: generalization and suppression applied to their own result with the
\* same k change no value, also when the 'Other' or null rows are fewer than k.
C14_CategoricalIdempotent ==
    Reapplied => heap[calls[2].ret].data = heap[calls[1].ret].data

C14_Witness ==
    /\ Reapplied
    /\ calls[1].method = "generalization"
    /\ Counter(ZipOut(1), Str("Other")) \in 1..(self_k - 1)
    /\ ZipOut(1) # ZipIn(1)

\* the direct calls of _anonymize_numerical with this method that returned
NumericalCalls(method) ==
    {i \in 1..Len(calls) : /\ calls[i].fn = "_anonymize_numerical"
                           /\ calls[i].method = method
                           /\ calls[i].ret # 0}

\* the "age" column a call was handed, and the one it returned
AgeIn(i) == heap[calls[i].arg].data["age"]

AgeOut(i) == heap[calls[i].ret].data["age"]

\* the number of rows of a column that hold v
Copies(values, v) == Cardinality({r \in 1..Len(values) : values[r] = v})

\* the group that position p of the sorted column falls in
GroupAt(sorted, p) == Group(sorted, (p - 1) \div self_k + 1, self_k)

\* the number of sorted positions whose group has mean v
RowsOfGroupsWithMean(sorted, v) ==
    Cardinality({p \in 1..Len(sorted) : GroupMean(GroupAt(sorted, p)) = v})

GroupMeans(sorted) == {GroupMean(GroupAt(sorted, p)) : p \in 1..Len(sorted)}

\* C15: the multiset of the values microaggregation returns holds, for each
\* group of k consecutive values of the sorted column, as many copies of the
\* group's mean as the group has values, also when equal values span groups.
C15_OutputIsGroupMeans ==
    \A i \in NumericalCalls("microaggregation") :
        LET sorted == Sorted(AgeIn(i))
        IN  \A v \in GroupMeans(sorted) \cup {AgeOut(i)[r] : r \in 1..Len(AgeOut(i))} :
                Copies(AgeOut(i), v) = RowsOfGroupsWithMean(sorted, v)

\* C16: every value microaggregation returns is held by at least k rows,
\* except the final group's mean when the column length is not a multiple of k.
C16_OutputValuesSharedByK ==
    \A i \in NumericalCalls("microaggregation") :
        LET sorted == Sorted(AgeIn(i))
            m == Len(sorted)
        IN  \A r \in 1..m :
                \/ Copies(AgeOut(i), AgeOut(i)[r]) >= self_k
                \/ /\ m % self_k # 0
                   /\ AgeOut(i)[r] = GroupMean(GroupAt(sorted, m))

\* ceil(m / k)
CeilDiv(m, k) == IF m % k = 0 THEN m \div k ELSE m \div k + 1

\* C17: the sorted column of length m is cut into ceil(m/k) consecutive groups,
\* each of k values but the last, which has m mod k values when that is not
\* zero; the groups in order make up the sorted column, every position once.
C17_GroupsPartitionSortedColumn ==
    \A i \in NumericalCalls("microaggregation") :
        LET sorted == Sorted(AgeIn(i))
            m == Len(sorted)
            n == GroupCount(m, self_k)
        IN  /\ n = CeilDiv(m, self_k)
            /\ \A g \in 1..n :
                  Len(Group(sorted, g, self_k)) =
                      IF g < n \/ m % self_k = 0 THEN self_k ELSE m % self_k
            /\ \A p \in 1..m :
                  GroupAt(sorted, p)[((p - 1) % self_k) + 1] = sorted[p]

C17_Witness ==
    \E i \in NumericalCalls("microaggregation") :
        /\ Len(AgeIn(i)) > self_k
        /\ Len(AgeIn(i)) % self_k # 0
        /\ \E r \in 1..Len(AgeIn(i)) : AgeOut(i)[r] # AgeIn(i)[r]

\* the direct binning calls handed a column with rows
BinningCalls ==
    {i \in 1..Len(calls) : /\ calls[i].fn = "_anonymize_numerical"
                           /\ calls[i].method = "binning"
                           /\ Len(AgeIn(i)) > 0}

DistinctLabels(values) == {values[r] : r \in 1..Len(values)}

\* the returned column has at most n distinct labels, the boundaries do not
\* decrease, and every row holds the label of a bin that contains its value
BinningSound(i) ==
    LET n == calls[i].bins
        out == AgeOut(i)
        edges == BinEdges(AgeIn(i), n)
    IN  /\ Cardinality(DistinctLabels(out)) <= n
        /\ Len(out) = Len(AgeIn(i))
        /\ \A b \in 1..(Len(edges) - 1) : NumLe(edges[b], edges[b + 1])
        /\ \A r \in 1..Len(out) :
              \/ IsConstant(AgeIn(i)) /\ out[r] = Str("-inf-inf")
              \/ \E b \in 1..(Len(edges) - 1) :
                    /\ out[r] = BinLabel(edges, b)
                    /\ NumLe(edges[b], AgeIn(i)[r])
                    /\ NumLe(AgeIn(i)[r], edges[b + 1])

\* C18: binning a numeric column with bin_count = n, n >= 1, returns a
\* column with at most n distinct labels, over non-decreasing boundaries,
\* each row holding one label whose bin contains the row's value.
C18_BinningLabelsEveryRow ==
    \A i \in BinningCalls : calls[i].ret # 0 /\ BinningSound(i)

\* the set of the quasi-identifier names of the call
EvaluatedColumns == {quasi_identifiers[j] : j \in 1..Len(quasi_identifiers)}

\* C19: the equivalence classes evaluate_information_loss reports cover every
\* row of the anonymized table, rows with a null quasi-identifier included:
\* equivalence_class_count * avg_equivalence_class_size is the row count
\* (stated for the tables with rows).
C19_ClassesCoverEveryRow ==
    (metrics.computed /\ NRows(heap[returned]) > 0) =>
        /\ metrics.avg_equivalence_class_size # NaN
        /\ NumMul(Num(metrics.equivalence_class_count, 1),
                  metrics.avg_equivalence_class_size)
             = Num(NRows(heap[returned]), 1)

\* a rate that is a number between 0 and 100
IsPercentage(x) ==
    /\ x \notin {NaN, Inf}
    /\ NumLe(Num(0, 1), x)
    /\ NumLe(x, Num(100, 1))

\* the arithmetic mean of the per-column suppression rates
RECURSIVE RateSum(_)
RateSum(cols) ==
    IF cols = <<>> THEN Num(0, 1)
    ELSE NumAdd(metrics.suppression_rate[Head(cols)], RateSum(Tail(cols)))

\* C20: each column's suppression rate is nulls / rows * 100, the overall
\* rate is total nulls / (rows * columns) * 100 and so the mean of the
\* per-column rates, and every rate is a number in [0, 100].
C20_SuppressionRates ==
    metrics.computed =>
        /\ \A c \in EvaluatedColumns :
              /\ IsPercentage(metrics.suppression_rate[c])
              /\ metrics.suppression_rate[c] =
                    Num(100 * NullCount(heap[returned], c), NRows(heap[returned]))
        /\ IsPercentage(metrics.overall_suppression_rate)
        /\ metrics.overall_suppression_rate =
              NumMul(RateSum(quasi_identifiers), Num(1, Len(quasi_identifiers)))

\* the call was ended by an exception after every column was transformed
RaisedAfterTransform ==
    /\ pc = "raised"
    /\ anonymized_df # 0
    /\ col_i > Len(quasi_identifiers)

\* C21: once the arguments passed validation and every quasi-identifier
\* column was transformed without error, the verifier and the repair raise
\* nothing, also for the empty quasi-identifier list: the call returns a table.
C21_VerifyAndRepairNeverRaise == ~RaisedAfterTransform

\* the transform loop of one call run without interruption, from column j on
RECURSIVE AloneTransform(_, _, _, _, _, _, _, _)
AloneTransform(h, r, qi, j, cm, nm, bc, k) ==
    IF j > Len(qi)
    THEN Outcome(h, r, NoError)
    ELSE LET out == IF is_numeric_dtype(h[r], qi[j])
                    THEN anonymize_numerical(h, r, qi[j], nm, bc, k)
                    ELSE anonymize_categorical(h, r, qi[j], cm, k)
         IN  IF out.raised # NoError
             THEN out
             ELSE AloneTransform(out.heap, out.ref, qi, j + 1, cm, nm, bc, k)

\* what a call of anonymize gives when it is the only call: the exception it
\* raises and the table it returns
AloneResult(e, t) == [raised |-> e, table |-> t]

Alone(d, qi, cm, nm, bc, k) ==
    IF MissingColumns(d, qi) # <<>>
    THEN AloneResult(Error("ValueError",
                "All quasi-identifiers must be columns in the DataFrame", <<>>),
             NotAFrame)
    ELSE LET c == DfCopy(<<d>>, 1)
             t == AloneTransform(c.heap, c.ref, qi, 1, cm, nm, bc, k)
         IN  CASE t.raised # NoError -> AloneResult(t.raised, NotAFrame)
               [] t.raised = NoError /\ GroupbyRejects(t.heap[t.ref], qi) ->
                    AloneResult(Error("ValueError", "No group keys passed!", <<>>),
                                NotAFrame)
               [] OTHER ->
                    IF verify_k_anonymity(t.heap[t.ref], qi, k)
                    THEN AloneResult(NoError, t.heap[t.ref])
                    ELSE LET s == apply_suppression(t.heap, t.ref, qi, k)
                         IN  AloneResult(NoError, s.heap[s.ref])

AloneOf(c) ==
    Alone(frames[c].original, frames[c].quasi_identifiers,
          frames[c].categorical_method, frames[c].numerical_method,
          frames[c].bin_count, self_k)

\* C22: under every interleaving of the steps of concurrent anonymize calls on
\* tables of their own, each call returns the table (or raises the exception)
\* it gives when run alone, its input table is as the caller handed it, and
\* the engine's k is as the constructor stored it.
C22_ConcurrentCallsAsAlone ==
    \A c \in Callers :
        /\ frames[c].pc # "idle" =>
              /\ heap[frames[c].df] = frames[c].original
              /\ self_k = k_arg.num
        /\ frames[c].pc = "returned" =>
              /\ AloneOf(c).raised = NoError
              /\ heap[frames[c].returned] = AloneOf(c).table
        /\ frames[c].pc = "raised" => frames[c].raised = AloneOf(c).raised

\* both calls had started before either finished, both returned, and a repair
\* was run by one of them
C22_Witness ==
    /\ \A c \in Callers : frames[c].pc = "returned"
    /\ Len(log) >= 2
    /\ log[1].level = "info" /\ log[2].level = "info"
    /\ log[2].msg = "Starting anonymization with k="
    /\ \E c \in Callers : frames[c].repaired
    /\ heap[frames["a"].returned] # heap[frames["b"].returned]

\* the orderings of a list of distinct names
Orderings(s) ==
    {q \in [1..Len(s) -> {s[j] : j \in 1..Len(s)}] :
        \A i, j \in 1..Len(s) : i # j => q[i] # q[j]}

\* C23: the verifier's answer on the call's table is the answer it gives for
\* every ordering of the quasi-identifier list.
C23_VerifierIgnoresOrder ==
    Verifying =>
        \A q \in Orderings(quasi_identifiers) :
            verify_k_anonymity(heap[anonymized_df], q, self_k)
                = (verified = "True")

C23_Witness ==
    /\ Verifying
    /\ verified = "True"
    /\ Len(quasi_identifiers) = 2
    /\ Cardinality(GroupKeys(heap[anonymized_df], quasi_identifiers)) >= 2
    /\ heap[anonymized_df].data["zip"] # heap[anonymized_df].data["age"]

\* the columns named by the debug events of the transform loop, in order
RECURSIVE TransformedColumns(_)
TransformedColumns(events) ==
    IF events = <<>> THEN <<>>
    ELSE IF Head(events).level = "debug"
         THEN <<Head(events).args[1]>> \o TransformedColumns(Tail(events))
         ELSE TransformedColumns(Tail(events))

\* how far a call has come: validation, the columns, verifier, repair, return
Phase ==
    CASE pc \in {"new", "init_raised", "ready"} -> 0
      [] pc = "transform" -> col_i
      [] pc = "repair"    -> Len(quasi_identifiers) + 2
      [] pc = "complete"  -> Len(quasi_identifiers) + 3
      [] OTHER            -> Len(quasi_identifiers) + 4

\* C24: a call goes through validation, the transform of each
\* quasi-identifier column once in list order, the verifier, the repair and
\* the return without going back: the verifier runs once, after the last
\* column and never after the repair; the repair runs at most once, only
\* after the verifier answered False; a call returns after a repair exactly
\* when the verifier answered False.
C24_PhasesInOrder ==
    [][/\ Phase' >= Phase
       /\ verified' # verified =>
             /\ verified = "none"
             /\ ~repaired
             /\ pc = "transform" /\ col_i > Len(quasi_identifiers)
             /\ TransformedColumns(log) = quasi_identifiers
       /\ (pc = "transform" /\ col_i' # col_i) =>
             /\ col_i' = col_i + 1
             /\ verified = "none"
             /\ TransformedColumns(log') =
                    SubSeq(quasi_identifiers, 1, col_i)
       /\ repaired' # repaired =>
             /\ ~repaired
             /\ pc = "repair"
             /\ verified = "False"
             /\ verified' = verified
       /\ (pc # "returned" /\ pc' = "returned") =>
             /\ pc = "complete"
             /\ verified \in {"True", "False"}
             /\ repaired <=> verified = "False"
             /\ TransformedColumns(log) = quasi_identifiers]_vars

C24_Witness ==
    /\ pc = "returned"
    /\ repaired
    /\ verified = "False"
    /\ Len(quasi_identifiers) = 2
    /\ heap[returned] # heap[df]

\* the levels of the events of a log, in order
Levels(events) == [i \in 1..Len(events) |-> events[i].level]

\* the number of events of a level
CountLevel(events, level) ==
    Cardinality({i \in 1..Len(events) : events[i].level = level})

\* the call was ended by the validation of its arguments
FailedValidation == pc = "raised" /\ anonymized_df = 0

\* C25: a call that returns has logged one info event first, one debug event
\* per transformed column, a warning exactly when the repair was run, and one
\* info event last; a call that fails validation has logged one error event
\* and no info event; the returned table is the one the steps compute from the
\* arguments, whatever was logged.
C25_DiagnosticEvents ==
    /\ pc = "returned" =>
          /\ Levels(log) =
                <<"info">>
                \o [j \in 1..Len(quasi_identifiers) |-> "debug"]
                \o (IF repaired THEN <<"warning">> ELSE <<>>)
                \o <<"info">>
          /\ log[1].msg = "Starting anonymization with k="
          /\ log[Len(log)].msg = "Anonymization complete"
          /\ heap[returned] =
                Alone(original, quasi_identifiers, categorical_method,
                      numerical_method, bin_count, self_k).table
    /\ FailedValidation =>
          /\ Levels(log) = <<"error">>
    /\ (pc \in {"transform", "repair", "complete"} /\ ~repaired) =>
          CountLevel(log, "warning") = 0

C25_Witness ==
    /\ pc = "returned"
    /\ repaired
    /\ Len(log) >= 4
    /\ log[Len(log) - 1].level = "warning"
    /\ log[2].level = "debug"

\* the number of times an operation was called on a block's connection
CountOp(ops, op) == Cardinality({i \in 1..Len(ops) : ops[i] = op})

\* the with-blocks that hold a connection
OpenBlocks == {b \in Blocks : db.blocks[b].pc = "body"}

\* every connection a block took went back to the pool once, as the last
\* thing done with it, and the pool misses only the connections of the
\* blocks that are open
ReleasedOnce ==
    /\ \A b \in Blocks :
          (db.blocks[b].pc = "exited" /\ db.blocks[b].conn # 0) =>
              /\ CountOp(db.blocks[b].ops, ReleaseCall(db.manager)) = 1
              /\ db.blocks[b].ops[Len(db.blocks[b].ops)] = ReleaseCall(db.manager)
    /\ db.manager # "none" =>
          db.free = Connections \ {db.blocks[b].conn : b \in OpenBlocks}
    /\ Cardinality(OpenBlocks) = Cardinality({db.blocks[b].conn : b \in OpenBlocks})

\* C26: get_connection hands every connection it took back to the pool
\* exactly once on every way out of the with-block, so that with no block
\* open no connection is checked out; after a normal end the connection was
\* committed before it was released; after a driver error it was rolled back
\* before it was released and a wipekit ConnectionError is raised.
C26_ConnectionsReleased ==
    /\ ReleasedOnce
    /\ \A b \in Blocks :
          LET block == db.blocks[b]
          IN  /\ (block.pc = "exited" /\ block.ended = "normal") =>
                    /\ block.ops = <<"commit", ReleaseCall(db.manager)>>
                    /\ block.raised = NoError
              /\ (block.pc = "exited" /\ block.ended = "driver_error") =>
                    /\ CountOp(block.ops, "rollback") = 1
                    /\ block.ops[Len(block.ops) - 1] = "rollback"
                    /\ block.raised = ConnectionError

\* C27: in the table anonymize returns, every row without a null in its
\* quasi-identifier columns is one of at least k rows with the same
\* quasi-identifier tuple.
C27_NonNullRowsKAnonymous ==
    pc = "returned" =>
        \A i \in 1..NRows(heap[returned]) :
            ~HasNullKey(heap[returned], quasi_identifiers, i) =>
                Multiplicity(heap[returned], quasi_identifiers, i) >= self_k

C27_Witness ==
    /\ pc = "returned"
    /\ repaired
    /\ quasi_identifiers # <<>>
    /\ \E i \in 1..NRows(heap[returned]) :
            ~HasNullKey(heap[returned], quasi_identifiers, i)
    /\ \E i \in 1..NRows(heap[returned]) :
            /\ AllNull(heap[returned], quasi_identifiers, i)
            /\ ~HasNullKey(heap[df], quasi_identifiers, i)

\* C28: the table anonymize returns is, cell by cell, the table the call
\* gives for every other ordering of the same quasi-identifier list.
C28_ResultIgnoresOrder ==
    pc = "returned" =>
        \A q \in Orderings(quasi_identifiers) \ {quasi_identifiers} :
            Alone(original, q, categorical_method, numerical_method,
                  bin_count, self_k)
                = AloneResult(NoError, heap[returned])

C28_Witness ==
    /\ pc = "returned"
    /\ Len(quasi_identifiers) = 2
    /\ repaired
    /\ \E i \in 1..NRows(heap[returned]) :
            ~HasNullKey(heap[returned], quasi_identifiers, i)
    /\ \A c \in QISet : heap[returned].data[c] # heap[df].data[c]

\* the groups of the sorted column that hold the value v
GroupsHolding(sorted, v) ==
    {g \in 1..GroupCount(Len(sorted), self_k) :
        \E p \in 1..Len(Group(sorted, g, self_k)) :
            Group(sorted, g, self_k)[p] = v}

\* C29: microaggregation gives rows with equal values equal results and rows
\* in the order of their values results in the same order; a value that
\* occurs in two consecutive groups gets the later group's mean in all its rows.
C29_MicroaggregationMonotone ==
    \A i \in NumericalCalls("microaggregation") :
        LET sorted == Sorted(AgeIn(i))
        IN  \A r, s \in 1..Len(AgeIn(i)) :
                /\ AgeIn(i)[r] = AgeIn(i)[s] => AgeOut(i)[r] = AgeOut(i)[s]
                /\ NumLe(AgeIn(i)[r], AgeIn(i)[s]) =>
                      NumLe(AgeOut(i)[r], AgeOut(i)[s])
                /\ \A g \in GroupsHolding(sorted, AgeIn(i)[r]) :
                      (g + 1 \in GroupsHolding(sorted, AgeIn(i)[r])
                       /\ g + 2 \notin GroupsHolding(sorted, AgeIn(i)[r])) =>
                          AgeOut(i)[r] = GroupMean(Group(sorted, g + 1, self_k))

C29_Witness ==
    \E i \in NumericalCalls("microaggregation") :
        LET sorted == Sorted(AgeIn(i))
        IN  \E r \in 1..Len(AgeIn(i)) :
                \E g \in GroupsHolding(sorted, AgeIn(i)[r]) :
                    /\ g + 1 \in GroupsHolding(sorted, AgeIn(i)[r])
                    /\ GroupMean(Group(sorted, g, self_k))
                          # GroupMean(Group(sorted, g + 1, self_k))
                    /\ AgeOut(i)[r] = GroupMean(Group(sorted, g + 1, self_k))

\* C30: the repair changes only quasi-identifier cells and only to null, a
\* cell that is null stays null, and the repair applied to its own result
\* changes nothing: on the repaired table the verifier answers True or finds
\* no group at all.
C30_RepairAddsNullsOnce ==
    [][pc = "repair" =>
        LET before == heap[anonymized_df]
            after == heap'[anonymized_df']
            again == apply_suppression(heap', anonymized_df',
                                       quasi_identifiers, self_k)
        IN  /\ NRows(after) = NRows(before)
            /\ \A c \in ColumnSet, i \in 1..NRows(before) :
                  /\ after.data[c][i] # before.data[c][i] =>
                        c \in QISet /\ IsNull(after.data[c][i])
                  /\ IsNull(before.data[c][i]) => IsNull(after.data[c][i])
            /\ again.heap[again.ref] = after
            /\ \/ verify_k_anonymity(after, quasi_identifiers, self_k)
               \/ GroupKeys(after, quasi_identifiers) = {}]_vars

\* a repaired table with a row the repair nulled, a row that kept the null
\* the transform gave it, and a row without null
C30_Witness ==
    /\ pc = "complete"
    /\ repaired
    /\ \E i \in 1..NRows(heap[anonymized_df]) :
            /\ AllNull(heap[anonymized_df], quasi_identifiers, i)
            /\ ~HasNullKey(heap[Len(heap) - 1], quasi_identifiers, i)
    /\ \E i \in 1..NRows(heap[anonymized_df]) :
            /\ HasNullKey(heap[anonymized_df], quasi_identifiers, i)
            /\ ~AllNull(heap[anonymized_df], quasi_identifiers, i)
    /\ \E i \in 1..NRows(heap[anonymized_df]) :
            ~HasNullKey(heap[anonymized_df], quasi_identifiers, i)

(***************************************************************************)
(* The specification.                                                      *)
(***************************************************************************)
\* the caller constructs an engine with some k
Constructs == pc = "new" /\ \E k \in KArgs : Construct(k)

\* the caller calls anonymize with some arguments
Calls ==
    /\ pc = "ready"
    /\ \E d \in Tables \cup {NotAFrame}, qi \in QILists,
          cm \in CategoricalMethods, nm \in NumericalMethods,
          bc \in BinCounts :
            Anonymize(d, qi, cm, nm, bc)

Next ==
    \/ Constructs
    \/ Calls
    \/ TransformColumn
    \/ Verify
    \/ Repair
    \/ Return
    \/ Evaluate

Spec == Init /\ [][Next]_vars

\* the caller takes a table to call a helper on
Holds ==
    /\ pc = "ready"
    /\ \/ \E t \in CatTables : HoldsCategorical(t)
       \/ \E t \in NumTables : HoldsNumerical(t)

\* the caller calls _anonymize_categorical
CallsCategorical ==
    /\ pc \in {"holds_categorical", "categorical_once"}
    /\ \E arg \in Arguments, method \in CategoricalMethods :
            CallCategorical(arg, method)

\* the caller calls _anonymize_numerical
CallsNumerical ==
    /\ pc = "holds_numerical"
    /\ \/ \E bins \in 1..MaxBins : CallNumerical("binning", bins)
       \/ \E method \in NumericalMethods : CallNumerical(method, DefaultBinCount)

NextHelpers ==
    \/ Constructs
    \/ Holds
    \/ CallsCategorical
    \/ CallsNumerical

SpecHelpers == Init /\ [][NextHelpers]_vars

\* a thread calls anonymize on a table of its own
ThreadCalls ==
    /\ pc = "ready"
    /\ \E c \in Callers :
        /\ frames[c].pc = "idle"
        /\ \E d \in ConcurrentTables, qi \in ConcurrentQILists,
              cm \in ConcurrentCategoricalMethods,
              nm \in ConcurrentNumericalMethods :
                ThreadCall(c, d, qi, cm, nm)

ThreadTransforms == pc = "ready" /\ \E c \in Callers : ThreadTransform(c)

ThreadVerifies == pc = "ready" /\ \E c \in Callers : ThreadVerify(c)

ThreadRepairs == pc = "ready" /\ \E c \in Callers : ThreadRepair(c)

ThreadReturns == pc = "ready" /\ \E c \in Callers : ThreadReturn(c)

NextConcurrent ==
    \/ Constructs
    \/ ThreadCalls
    \/ ThreadTransforms
    \/ ThreadVerifies
    \/ ThreadRepairs
    \/ ThreadReturns

SpecConcurrent == Init /\ [][NextConcurrent]_vars

\* a database manager is constructed
Manages == db.manager = "none" /\ \E m \in Managers : Manage(m)

\* a with-block over get_connection is entered
Acquires == db.manager # "none" /\ \E b \in Blocks : Acquire(b)

\* a with-block over get_connection ends
Exits ==
    /\ db.manager # "none"
    /\ \E b \in Blocks :
        /\ db.blocks[b].pc = "body"
        /\ \E ended \in {"normal", "driver_error", "exception"},
              commit_fails \in BOOLEAN, rollback_fails \in BOOLEAN :
                Exit(b, ended, commit_fails, rollback_fails)

NextConnections ==
    \/ Manages
    \/ Acquires
    \/ Exits

SpecConnections == Init /\ [][NextConnections]_vars
====
